---- MODULE Spec2Model ----
(***************************************************************************)
(* A model of inliner/inliner.py: the InliningParser class (resource       *)
(* resolution and fetching, the recursive stylesheet import flattener, the *)
(* multi-pass document rewriter) and the command-line entry point main.    *)
(*                                                                         *)
(* Strings that the code inspects (resource names, urls) are sequences of  *)
(* atoms, so that startswith('/'), startswith('data:') and the scheme test *)
(* of urlparse are computed and concatenation is \o.  A name such as       *)
(* "img/a.png" is <<"img/a.png">>, "/a.css" is <<"/", "a.css">> and        *)
(* "http://y.com/b.png" is <<"http:", "//y.com", "/", "b.png">>.           *)
(*                                                                         *)
(* Stylesheets are sequences of rules.  The import rules of the model are  *)
(* of the form  @import url("...")  and the font urls of the form          *)
(* url("..."), the forms lines 88-91 and 97-99 read.                       *)
(***************************************************************************)
EXTENDS Integers, Sequences, FiniteSets, TLC

VARIABLES
    pc,        \* where the run stands: "main", "process", "pass", "flat", "load", "done", "crashed"
    err,       \* the exception that ended the run ("" when none)
    run,       \* 1: the run on the input document; 2: the run on the first run's output
    pretty,    \* self.pretty
    page,      \* the markup the source names (what retrieve_file(self.source) reads)
    doc,       \* soup: the document tree, its nodes in document order
    pass,      \* the for loop of process that is running
    todo,      \* the rest of that loop's find_all result (node ids)
    stack,     \* the active inline_css_imports invocations, innermost last
    result,    \* the stylesheet the outermost inline_css_imports returned
    fetchLog,  \* every urlopen call issued so far, in order
    outFile,   \* the output destination
    prev,      \* the document the first run wrote
    web,       \* what urlopen can reach: url -> content type and payload
    down,      \* a url that is unreachable in this behaviour (<<>>: none)
    calls      \* number of stylesheets parsed so far (identifies a parse's rule objects)

vars == <<pc, err, run, pretty, page, doc, pass, todo, stack, result,
          fetchLog, outFile, prev, web, down, calls>>

-----------------------------------------------------------------------------
(* Bounds of the model *)

MaxRules == 2      \* rules per generated stylesheet
MaxNodes == 2      \* nodes per generated document
MaxDepth == 4      \* stands for the interpreter's recursion limit

-----------------------------------------------------------------------------
(* Strings *)

Schemes == {"http:", "data:"}

\* urlparse(name).scheme is non-empty
HasScheme(name) == Len(name) > 0 /\ name[1] \in Schemes

\* name.startswith('/')
StartsWithSlash(name) == Len(name) > 0 /\ name[1] = "/"

\* url.startswith('data:')
StartsWithData(name) == Len(name) > 0 /\ name[1] = "data:"

\* the source the run is started on, and self.base = scheme://netloc of it
Source == <<"http:", "//x.com", "/", "index.html">>

Base == SubSeq(Source, 1, 2)

\* the url retrieve_file opens for name (lines 51-61); it raises for no name
Resolve(name) ==
    IF HasScheme(name) THEN name
    ELSE IF StartsWithSlash(name) THEN Base \o name
    ELSE Base \o <<"/">> \o name

\* base64.standard_b64encode of the payloads of the model
B64(bytes) ==
    CASE bytes = "FONT" -> "Rk9OVA=="
      [] bytes = "PNG"  -> "UE5H"
      [] bytes = "HTML" -> "SFRNTA=="
      [] OTHER          -> ""

\* data_as_url
DataAsUrl(bytes, ctype) == <<"data:", ctype, ";base64,", B64(bytes)>>

-----------------------------------------------------------------------------
(* Stylesheets *)

NoBody == [sheet |-> "", idx |-> 0]

\* stylesheet text: a rule's kind, its import target, its font url tokens
\* (as written) and the identity of the rest of its text
TextRule(k, arg, toks, body) == [k |-> k, arg |-> arg, toks |-> toks, body |-> body]

\* tinycss2.parse_stylesheet: rule objects of parse number inst; a url token
\* has a value and a representation, both as written
ParseCss(text, inst) ==
    [i \in 1..Len(text) |->
        [k    |-> text[i].k,
         arg  |-> text[i].arg,
         toks |-> [j \in 1..Len(text[i].toks) |->
                      [value |-> text[i].toks[j], repr |-> text[i].toks[j]]],
         body |-> text[i].body,
         inst |-> inst]]

\* rule.serialize(): a token is written as its representation
SerializeRule(r) ==
    [k    |-> r.k,
     arg  |-> r.arg,
     toks |-> [j \in 1..Len(r.toks) |-> r.toks[j].repr],
     body |-> r.body]

Newline == TextRule("other", <<>>, <<>>, [sheet |-> "\n", idx |-> 0])

RECURSIVE JoinRules(_, _)
\* sep.join(rule.serialize() for rule in stylesheet)
JoinRules(sheet, sep) ==
    IF Len(sheet) = 0 THEN <<>>
    ELSE IF Len(sheet) = 1 THEN <<SerializeRule(sheet[1])>>
    ELSE <<SerializeRule(sheet[1])>> \o sep \o JoinRules(Tail(sheet), sep)

-----------------------------------------------------------------------------
(* Fetching *)

Reachable(url) == url \in DOMAIN web /\ url # down

\* one urlopen call: the name asked for, the url opened, what asked for it
\* (document node, rule object, token) and the run
LogEntry(name, node, inst, body, tok) ==
    [name |-> name, url |-> Resolve(name), node |-> node,
     inst |-> inst, body |-> body, tok |-> tok, run |-> run,
     frame |-> IF stack = <<>> THEN 0 ELSE stack[Len(stack)].inst]

CurNode == IF todo = <<>> THEN 0 ELSE Head(todo)

\* an invocation of inline_css_imports: its stylesheet, its index ii (counted
\* from 1), its href, and the number of the parse that made its rules
Frame(sheet, href, inst) == [sheet |-> sheet, ii |-> 1, href |-> href, inst |-> inst]

Top == stack[Len(stack)]

TopRule == Top.sheet[Top.ii]

InLoop == pc = "flat" /\ Len(stack) > 0 /\ Top.ii <= Len(Top.sheet)

SetTop(f) == [stack EXCEPT ![Len(stack)] = f]

RECURSIVE FontScanFrom(_, _, _)
\* the token loop of lines 96-105 from token j on: the fetches issued, whether
\* all succeeded, and the tokens after the loop
FontScanFrom(rule, j, node) ==
    IF j > Len(rule.toks) THEN [log |-> <<>>, ok |-> TRUE, toks |-> rule.toks]
    ELSE LET url == rule.toks[j].value IN
         IF StartsWithData(url) THEN FontScanFrom(rule, j + 1, node)
         ELSE LET e == LogEntry(url, node, rule.inst, rule.body, j) IN
              IF ~Reachable(Resolve(url))
              THEN [log |-> <<e>>, ok |-> FALSE, toks |-> rule.toks]
              ELSE LET r    == web[Resolve(url)]
                       rest == FontScanFrom(rule, j + 1, node)
                   IN [log  |-> <<e>> \o rest.log,
                       ok   |-> rest.ok,
                       toks |-> [rest.toks EXCEPT ![j].repr = DataAsUrl(r.bytes, r.ctype)]]

FlatUnchanged == UNCHANGED <<run, pretty, page, doc, pass, todo, outFile, prev, web, down>>

\* lines 82-84: a comment is cut out and the loop continues at the same index
CommentRule ==
    /\ InLoop
    /\ TopRule.k = "comment"
    /\ stack' = SetTop([Top EXCEPT !.sheet =
                    SubSeq(Top.sheet, 1, Top.ii - 1) \o
                    SubSeq(Top.sheet, Top.ii + 1, Len(Top.sheet))])
    /\ UNCHANGED <<pc, err, result, fetchLog, calls>>
    /\ FlatUnchanged

\* load_css called for href (lines 67-71): fetch, decode, parse, and enter
\* inline_css_imports on the parsed rules
LoadCss(href, entry) ==
    /\ fetchLog' = Append(fetchLog, entry)
    /\ IF ~Reachable(Resolve(href))
       THEN /\ pc' = "crashed"
            /\ err' = "URLError"
            /\ UNCHANGED <<stack, calls>>
       ELSE IF Len(stack) >= MaxDepth
       THEN /\ pc' = "crashed"
            /\ err' = "RecursionError"
            /\ UNCHANGED <<stack, calls>>
       ELSE /\ pc' = "flat"
            /\ err' = err
            /\ calls' = calls + 1
            /\ stack' = Append(stack,
                   Frame(ParseCss(web[Resolve(href)].css, calls + 1), href, calls + 1))

\* lines 85-92: an import rule calls load_css on its target
ImportRule ==
    /\ InLoop
    /\ TopRule.k = "import"
    /\ LoadCss(TopRule.arg,
               LogEntry(TopRule.arg, CurNode, TopRule.inst, TopRule.body, 0))
    /\ UNCHANGED result
    /\ FlatUnchanged

\* line 93: stylesheet[:ii] + sub_stylesheet + stylesheet[ii+1:]
Splice(sheet, ii, sub) ==
    SubSeq(sheet, 1, ii - 1) \o sub \o SubSeq(sheet, ii + 1, Len(sheet))

\* the index the loop continues at after an import was spliced in (line 107)
AfterImport(ii, sub) == ii + 1

\* line 108, then 93-107 in the caller: the inner invocation returns its
\* stylesheet, the caller splices it in place of the import rule and moves on
ImportReturn ==
    /\ pc = "flat"
    /\ Len(stack) > 1
    /\ Top.ii > Len(Top.sheet)
    /\ LET caller == stack[Len(stack) - 1] IN
       stack' = Append(SubSeq(stack, 1, Len(stack) - 2),
                   [caller EXCEPT
                       !.sheet = Splice(caller.sheet, caller.ii, Top.sheet),
                       !.ii    = AfterImport(caller.ii, Top.sheet)])
    /\ UNCHANGED <<pc, err, result, fetchLog, calls>>
    /\ FlatUnchanged

\* lines 94-107: a font-face rule has its url tokens embedded
FontFaceRule ==
    /\ InLoop
    /\ TopRule.k = "fontface"
    /\ LET scan == FontScanFrom(TopRule, 1, CurNode) IN
       /\ fetchLog' = fetchLog \o scan.log
       /\ IF scan.ok
          THEN /\ stack' = SetTop([Top EXCEPT !.sheet[Top.ii].toks = scan.toks,
                                              !.ii = Top.ii + 1])
               /\ UNCHANGED <<pc, err>>
          ELSE /\ pc' = "crashed"
               /\ err' = "URLError"
               /\ UNCHANGED stack
    /\ UNCHANGED <<result, calls>>
    /\ FlatUnchanged

\* line 107: any other rule is stepped over
OtherRule ==
    /\ InLoop
    /\ TopRule.k = "other"
    /\ stack' = SetTop([Top EXCEPT !.ii = Top.ii + 1])
    /\ UNCHANGED <<pc, err, result, fetchLog, calls>>
    /\ FlatUnchanged

-----------------------------------------------------------------------------
(* The flattener on its own: load_css("a.css") over generated stylesheets *)

Target(n) == <<n>>

UrlOf(n) == Resolve(Target(n))

FontName == <<"f.woff">>

Inline == DataAsUrl("FONT", "font/woff")

\* the rules a generated stylesheet is made of
RuleShapes ==
    { [k |-> "comment",  arg |-> <<>>, toks |-> <<>>],
      [k |-> "other",    arg |-> <<>>, toks |-> <<>>],
      [k |-> "fontface", arg |-> <<>>, toks |-> <<FontName>>],
      [k |-> "fontface", arg |-> <<>>, toks |-> <<Inline, FontName>>],
      [k |-> "import",   arg |-> Target("a.css"), toks |-> <<>>],
      [k |-> "import",   arg |-> Target("b.css"), toks |-> <<>>],
      [k |-> "import",   arg |-> Target("c.css"), toks |-> <<>>] }

LeafShapes == { s \in RuleShapes : s.k \in {"comment", "other"} }

SeqsUpTo(S, n) == UNION { [1..m -> S] : m \in 0..n }

MkText(shapes, name) ==
    [i \in 1..Len(shapes) |->
        TextRule(shapes[i].k, shapes[i].arg, shapes[i].toks,
                 [sheet |-> name, idx |-> i])]

CssResource(text) == [ctype |-> "text/css", css |-> text, bytes |-> ""]

BinResource(ctype, bytes) == [ctype |-> ctype, css |-> <<>>, bytes |-> bytes]

FontUrl == Resolve(FontName)

WebOf(a, b, c) ==
    (UrlOf("a.css") :> CssResource(MkText(a, "a.css"))) @@
    (UrlOf("b.css") :> CssResource(MkText(b, "b.css"))) @@
    (UrlOf("c.css") :> CssResource(MkText(c, "c.css"))) @@
    (FontUrl :> BinResource("font/woff", "FONT"))

NoDoc == <<>>

NoOut == [state |-> "old", doc |-> <<>>, pretty |-> FALSE]

InitFlat ==
    /\ pc = "load"
    /\ err = ""
    /\ run = 1
    /\ pretty = FALSE
    /\ page = NoDoc
    /\ doc = NoDoc
    /\ pass = "none"
    /\ todo = <<>>
    /\ stack = <<>>
    /\ result = <<>>
    /\ fetchLog = <<>>
    /\ outFile = NoOut
    /\ prev = NoDoc
    /\ \E a \in SeqsUpTo(RuleShapes, MaxRules), b \in SeqsUpTo(RuleShapes, MaxRules),
          c \in SeqsUpTo(LeafShapes, 1) :
          web = WebOf(a, b, c)
    /\ down = <<>>
    /\ calls = 0

\* the caller's load_css(href) on the starting stylesheet
FlatStart ==
    /\ pc = "load"
    /\ LoadCss(Target("a.css"), LogEntry(Target("a.css"), 0, 0, NoBody, 0))
    /\ UNCHANGED result
    /\ FlatUnchanged

\* line 108 in the outermost invocation: the stylesheet goes back to the caller
FlatFinish ==
    /\ pc = "flat"
    /\ pass = "none"
    /\ Len(stack) = 1
    /\ Top.ii > Len(Top.sheet)
    /\ result' = Top.sheet
    /\ stack' = <<>>
    /\ pc' = "done"
    /\ UNCHANGED <<err, fetchLog, calls>>
    /\ FlatUnchanged

NextFlat ==
    \/ FlatStart
    \/ CommentRule
    \/ ImportRule
    \/ ImportReturn
    \/ FontFaceRule
    \/ OtherRule
    \/ FlatFinish

SpecFlat == InitFlat /\ [][NextFlat]_vars

-----------------------------------------------------------------------------
(* The document tree *)

NoAttrs == [a \in {} |-> <<>>]

\* an element or comment as markup: tag, attributes, text content; inNoscript
\* says that it lies in the subtree of the nearest preceding noscript element
Markup(tag, attrs, hasText, css, js, inNoscript) ==
    [tag |-> tag, attrs |-> attrs, hasText |-> hasText, css |-> css, js |-> js,
     inNoscript |-> inNoscript]

Element(tag, attrs) == Markup(tag, attrs, FALSE, <<>>, "", FALSE)

StyleElement(css) == Markup("style", NoAttrs, TRUE, css, "", FALSE)

\* tag.get(a) is not None
Has(node, a) == a \in DOMAIN node.attrs

\* tag.get(a) is truthy: present and not the empty string
Truthy(node, a) == Has(node, a) /\ node.attrs[a] # <<>>

\* del tag[a]
Del(attrs, a) == [x \in (DOMAIN attrs) \ {a} |-> attrs[x]]

\* BeautifulSoup(content, "lxml"): the nodes of the markup, in document order
Soup(markup) ==
    [i \in 1..Len(markup) |->
        [id |-> i, tag |-> markup[i].tag, attrs |-> markup[i].attrs,
         hasText |-> markup[i].hasText, css |-> markup[i].css, js |-> markup[i].js,
         inNoscript |-> markup[i].inNoscript]]

\* str(soup): an element whose string is empty is written like one without text
StrSoup(tree) ==
    [i \in 1..Len(tree) |->
        Markup(tree[i].tag, tree[i].attrs,
               tree[i].hasText /\ (tree[i].css # <<>> \/ tree[i].js # ""),
               tree[i].css, tree[i].js, tree[i].inNoscript)]

IsNoscript(n) == n.tag = "noscript" \/ n.inNoscript

IsComment(n) == n.tag = "#comment"

\* lines 119-123: every noscript subtree and every comment is decomposed
Decomposed(tree) == SelectSeq(tree, LAMBDA n : ~IsNoscript(n) /\ ~IsComment(n))

\* soup.find_all(tag): the ids of the elements of that tag, in document order
FindAll(tree, tag) ==
    LET hits == SelectSeq(tree, LAMBDA n : n.tag = tag)
    IN [i \in 1..Len(hits) |-> hits[i].id]

Pos(id) == CHOOSE p \in 1..Len(doc) : doc[p].id = id

\* the loops with the script loop run before the link loop
PassOrderScriptFirst == <<"style", "script", "link", "img">>

\* the for loops of process that fetch, in the order they run (lines 125-161)
PassOrder == <<"style", "link", "script", "img">>

RECURSIVE PassFrom(_, _)
\* the first loop from number k on that has an element to visit; "write" when
\* there is none (the svg loop of lines 163-164 only logs)
PassFrom(k, tree) ==
    IF k > Len(PassOrder) THEN [pass |-> "write", todo |-> <<>>]
    ELSE IF FindAll(tree, PassOrder[k]) # <<>>
         THEN [pass |-> PassOrder[k], todo |-> FindAll(tree, PassOrder[k])]
         ELSE PassFrom(k + 1, tree)

PassNo(name) == CHOOSE k \in 1..Len(PassOrder) : PassOrder[k] = name

\* the loop position after the current element is done, in the tree as it is then
Advance(tree) ==
    IF Len(todo) > 1 THEN [pass |-> pass, todo |-> Tail(todo)]
    ELSE PassFrom(PassNo(pass) + 1, tree)

NodeEntry(name) == LogEntry(name, CurNode, 0, NoBody, 0)

Cur == doc[Pos(CurNode)]

SetCur(n) == [doc EXCEPT ![Pos(CurNode)] = n]

Raise(e) == pc' = "crashed" /\ err' = e

\* main (lines 175-178): the output file is opened for writing, then the
\* parser is built
Main ==
    /\ pc = "main"
    /\ outFile' = [state |-> "empty", doc |-> <<>>, pretty |-> FALSE]
    /\ pc' = "process"
    /\ UNCHANGED <<err, run, pretty, page, doc, pass, todo, stack, result,
                   fetchLog, prev, web, down, calls>>

\* lines 117-123: the document is fetched and parsed; noscript subtrees and
\* comments are removed
ProcessStart ==
    /\ pc = "process"
    /\ fetchLog' = Append(fetchLog, LogEntry(Source, 0, 0, NoBody, 0))
    /\ IF ~Reachable(Source)
       THEN /\ Raise("URLError")
            /\ UNCHANGED <<doc, pass, todo>>
       ELSE LET tree == Decomposed(Soup(page))
                nxt  == PassFrom(1, tree)
            IN /\ doc' = tree
               /\ pass' = nxt.pass
               /\ todo' = nxt.todo
               /\ pc' = "pass"
               /\ err' = err
    /\ UNCHANGED <<run, pretty, page, stack, result, outFile, prev, web, down, calls>>

\* lines 125-126: the style loop calls inline_css_imports on tag.string
StyleCall ==
    /\ pc = "pass" /\ pass = "style"
    /\ IF ~Cur.hasText
       THEN /\ Raise("TypeError")
            /\ UNCHANGED <<stack, calls>>
       ELSE /\ stack' = <<Frame(ParseCss(Cur.css, calls + 1), <<"inline">>, calls + 1)>>
            /\ calls' = calls + 1
            /\ pc' = "flat"
            /\ err' = err
    /\ UNCHANGED <<run, pretty, page, doc, pass, todo, result, fetchLog,
                   outFile, prev, web, down>>

Returning == pc = "flat" /\ Len(stack) = 1 /\ Top.ii > Len(Top.sheet)

\* line 127: the element's string becomes the joined serialized rules
StyleReturn ==
    /\ Returning /\ pass = "style"
    /\ LET tree == SetCur([Cur EXCEPT
                       !.hasText = TRUE,
                       !.css = JoinRules(Top.sheet, IF pretty THEN <<Newline>> ELSE <<>>)])
           nxt  == Advance(tree)
       IN /\ doc' = tree
          /\ pass' = nxt.pass
          /\ todo' = nxt.todo
    /\ result' = Top.sheet
    /\ stack' = <<>>
    /\ pc' = "pass"
    /\ UNCHANGED <<err, run, pretty, page, fetchLog, outFile, prev, web, down, calls>>

\* 'stylesheet' in tag.get('rel')
RelHas(node, v) == \E i \in 1..Len(node.attrs["rel"]) : node.attrs["rel"][i] = v

\* as HrefAttr, with an attribute taken whenever it is present, empty or not
HrefAttrPresent(node) ==
    IF Has(node, "href") THEN "href"
    ELSE IF Has(node, "data-href") THEN "data-href"
    ELSE ""

\* lines 131-137: the attribute the stylesheet's name is read from ("" if none)
HrefAttr(node) ==
    IF Truthy(node, "href") THEN "href"
    ELSE IF Truthy(node, "data-href") THEN "data-href"
    ELSE ""

\* lines 129-139: a link element; a stylesheet link that names its stylesheet
\* loses that attribute and load_css is called
LinkStep ==
    /\ pc = "pass" /\ pass = "link"
    /\ IF ~Has(Cur, "rel")
       THEN /\ Raise("TypeError")
            /\ UNCHANGED <<doc, pass, todo, stack, fetchLog, calls>>
       ELSE IF ~RelHas(Cur, "stylesheet") \/ HrefAttr(Cur) = ""
       THEN /\ doc' = doc
            /\ pass' = Advance(doc).pass
            /\ todo' = Advance(doc).todo
            /\ UNCHANGED <<pc, err, stack, fetchLog, calls>>
       ELSE LET a == HrefAttr(Cur) IN
            /\ doc' = SetCur([Cur EXCEPT !.attrs = Del(Cur.attrs, a)])
            /\ LoadCss(Cur.attrs[a], NodeEntry(Cur.attrs[a]))
            /\ UNCHANGED <<pass, todo>>
    /\ UNCHANGED <<run, pretty, page, result, outFile, prev, web, down>>

\* lines 140-142: the link element is replaced by a new style element
LinkReturn ==
    /\ Returning /\ pass = "link"
    /\ LET new  == [id |-> Cur.id, tag |-> "style", attrs |-> NoAttrs,
                    hasText |-> TRUE, css |-> JoinRules(Top.sheet, <<>>),
                    js |-> "", inNoscript |-> FALSE]
           tree == SetCur(new)
           nxt  == Advance(tree)
       IN /\ doc' = tree
          /\ pass' = nxt.pass
          /\ todo' = nxt.todo
    /\ result' = Top.sheet
    /\ stack' = <<>>
    /\ pc' = "pass"
    /\ UNCHANGED <<err, run, pretty, page, fetchLog, outFile, prev, web, down, calls>>

\* lines 144-149: a script element with a src has the script embedded
ScriptStep ==
    /\ pc = "pass" /\ pass = "script"
    /\ IF ~Truthy(Cur, "src")
       THEN /\ doc' = doc
            /\ pass' = Advance(doc).pass
            /\ todo' = Advance(doc).todo
            /\ UNCHANGED <<pc, err, fetchLog>>
       ELSE LET name == Cur.attrs["src"] IN
            /\ fetchLog' = Append(fetchLog, NodeEntry(name))
            /\ IF ~Reachable(Resolve(name))
               THEN /\ Raise("URLError")
                    /\ UNCHANGED <<doc, pass, todo>>
               ELSE LET tree == SetCur([Cur EXCEPT
                                   !.attrs = Del(Cur.attrs, "src"),
                                   !.hasText = TRUE,
                                   !.js = web[Resolve(name)].bytes])
                        nxt  == Advance(tree)
                    IN /\ doc' = tree
                       /\ pass' = nxt.pass
                       /\ todo' = nxt.todo
                       /\ UNCHANGED <<pc, err>>
    /\ UNCHANGED <<run, pretty, page, stack, result, outFile, prev, web, down, calls>>

\* lines 151-161: an img element is embedded as a data url or, for an svg
\* image, replaced by the parsed image
ImgStep ==
    /\ pc = "pass" /\ pass = "img"
    /\ IF ~Has(Cur, "src")
       THEN /\ Raise("AttributeError")
            /\ UNCHANGED <<doc, pass, todo, fetchLog>>
       ELSE IF StartsWithData(Cur.attrs["src"])
       THEN /\ doc' = doc
            /\ pass' = Advance(doc).pass
            /\ todo' = Advance(doc).todo
            /\ UNCHANGED <<pc, err, fetchLog>>
       ELSE LET name == Cur.attrs["src"] IN
            /\ fetchLog' = Append(fetchLog, NodeEntry(name))
            /\ IF ~Reachable(Resolve(name))
               THEN /\ Raise("URLError")
                    /\ UNCHANGED <<doc, pass, todo>>
               ELSE LET r    == web[Resolve(name)]
                        new  == IF r.ctype = "image/svg+xml"
                                THEN [id |-> Cur.id, tag |-> "svg", attrs |-> NoAttrs,
                                      hasText |-> FALSE, css |-> <<>>, js |-> "",
                                      inNoscript |-> FALSE]
                                ELSE [Cur EXCEPT !.attrs["src"] = DataAsUrl(r.bytes, r.ctype)]
                        tree == SetCur(new)
                        nxt  == Advance(tree)
                    IN /\ doc' = tree
                       /\ pass' = nxt.pass
                       /\ todo' = nxt.todo
                       /\ UNCHANGED <<pc, err>>
    /\ UNCHANGED <<run, pretty, page, stack, result, outFile, prev, web, down, calls>>

\* lines 166-169: the document is written to the output
WriteOut ==
    /\ pc = "pass" /\ pass = "write"
    /\ outFile' = [state |-> "written", doc |-> StrSoup(doc), pretty |-> pretty]
    /\ pc' = "done"
    /\ UNCHANGED <<err, run, pretty, page, doc, pass, todo, stack, result,
                   fetchLog, prev, web, down, calls>>

\* the inliner is started again, on the compact document the first run wrote
Rerun ==
    /\ pc = "done" /\ run = 1 /\ ~pretty
    /\ run' = 2
    /\ prev' = outFile.doc
    /\ page' = outFile.doc
    /\ outFile' = NoOut
    /\ doc' = NoDoc
    /\ pass' = "start"
    /\ todo' = <<>>
    /\ pc' = "main"
    /\ UNCHANGED <<err, pretty, stack, result, fetchLog, web, down, calls>>

-----------------------------------------------------------------------------
(* A run of main over generated documents *)

Import(n) == [k |-> "import", arg |-> Target(n), toks |-> <<>>]

Plain == [k |-> "other", arg |-> <<>>, toks |-> <<>>]

Remark == [k |-> "comment", arg |-> <<>>, toks |-> <<>>]

FontFace == [k |-> "fontface", arg |-> <<>>, toks |-> <<FontName>>]

\* the site the generated documents refer to: a.css imports b.css, b.css
\* holds a font-face rule, c.css holds only a comment
SiteWeb ==
    WebOf(<<Import("b.css"), Plain>>, <<Plain, FontFace>>, <<Remark>>) @@
    (Source :> BinResource("text/html", "HTML")) @@
    (Resolve(<<>>) :> BinResource("text/html", "HTML")) @@
    (Resolve(<<"s.js">>) :> BinResource("text/javascript", "JS")) @@
    (Resolve(<<"p.png">>) :> BinResource("image/png", "PNG")) @@
    (Resolve(<<"i.svg">>) :> BinResource("image/svg+xml", "SVG"))

Rel(v) == "rel" :> <<v>>

NodeChoices ==
    { Element("noscript", NoAttrs),
      Markup("img", "src" :> <<"p.png">>, FALSE, <<>>, "", TRUE),
      Element("#comment", NoAttrs),
      Element("div", NoAttrs),
      Element("style", NoAttrs),
      StyleElement(MkText(<<Remark>>, "inline")),
      StyleElement(MkText(<<Import("c.css"), FontFace>>, "inline")),
      StyleElement(MkText(<<Import("a.css"), Import("c.css")>>, "inline")),
      Element("link", Rel("stylesheet") @@ ("href" :> <<"a.css">>)),
      Element("link", Rel("stylesheet") @@ ("href" :> <<>>) @@ ("data-href" :> <<"/", "b.css">>)),
      Element("link", Rel("stylesheet") @@ ("href" :> <<>>)),
      Element("link", Rel("stylesheet")),
      Element("link", Rel("icon") @@ ("href" :> <<"p.png">>)),
      Element("link", "href" :> <<"a.css">>),
      Element("script", "src" :> <<"s.js">>),
      Markup("script", NoAttrs, TRUE, <<>>, "JS", FALSE),
      Element("img", "src" :> <<"p.png">>),
      Element("img", "src" :> DataAsUrl("PNG", "image/png")),
      Element("img", "src" :> <<"i.svg">>),
      Element("img", "src" :> <<>>),
      Element("img", NoAttrs) }

\* an element marked as lying in a noscript subtree follows a noscript element
WellFormed(markup) ==
    \A i \in 1..Len(markup) :
        markup[i].inNoscript => (i > 1 /\ IsNoscript(markup[i - 1]))

DownChoices ==
    { <<>>, Source, UrlOf("b.css"), FontUrl, Resolve(<<"s.js">>), Resolve(<<"p.png">>) }

Init ==
    /\ pc = "main"
    /\ err = ""
    /\ run = 1
    /\ pretty \in BOOLEAN
    /\ page \in { m \in SeqsUpTo(NodeChoices, MaxNodes) : WellFormed(m) }
    /\ doc = NoDoc
    /\ pass = "start"
    /\ todo = <<>>
    /\ stack = <<>>
    /\ result = <<>>
    /\ fetchLog = <<>>
    /\ outFile = NoOut
    /\ prev = NoDoc
    /\ web = SiteWeb
    /\ down \in DownChoices
    /\ calls = 0

Next ==
    \/ Main
    \/ ProcessStart
    \/ StyleCall
    \/ StyleReturn
    \/ LinkStep
    \/ LinkReturn
    \/ ScriptStep
    \/ ImgStep
    \/ WriteOut
    \/ Rerun
    \/ CommentRule
    \/ ImportRule
    \/ ImportReturn
    \/ FontFaceRule
    \/ OtherRule

Spec == Init /\ [][Next]_vars

-----------------------------------------------------------------------------
(* The import graph of the stylesheets, and its depth-first expansion *)

ImportsOf(u) ==
    IF u \in DOMAIN web
    THEN { Resolve(web[u].css[i].arg) :
             i \in { j \in 1..Len(web[u].css) : web[u].css[j].k = "import" } }
    ELSE {}

RECURSIVE ReachIn(_, _)
\* the urls reached from the set S in at most n import steps
ReachIn(S, n) ==
    IF n = 0 THEN S
    ELSE ReachIn(S \cup UNION { ImportsOf(u) : u \in S }, n - 1)

StartUrl == UrlOf("a.css")

Graph == ReachIn({StartUrl}, Cardinality(DOMAIN web))

\* no stylesheet reachable from the starting one imports its way back to itself
Acyclic ==
    \A u \in Graph : u \notin ReachIn(ImportsOf(u), Cardinality(DOMAIN web))

RECURSIVE Expand(_, _)
\* the depth-first, in-order expansion of the stylesheet at u from rule i on:
\* comments dropped, every import replaced by the expansion of its target
Expand(u, i) ==
    IF i > Len(web[u].css) THEN <<>>
    ELSE LET r == web[u].css[i] IN
         (CASE r.k = "comment" -> <<>>
            [] r.k = "import"  -> Expand(Resolve(r.arg), 1)
            [] OTHER           -> <<[k |-> r.k, body |-> r.body]>>)
         \o Expand(u, i + 1)

Shape(sheet) == [i \in 1..Len(sheet) |-> [k |-> sheet[i].k, body |-> sheet[i].body]]

\* C1: when the import graph is acyclic and every fetch succeeds, the rule
\* sequence load_css returns holds no comment rule and no import rule.
C1_NoCommentNoImport ==
    (pc = "done" /\ Acyclic) =>
        \A i \in 1..Len(result) : result[i].k \notin {"comment", "import"}

\* C2: when the import graph is acyclic and every fetch succeeds, load_css
\* returns the depth-first, in-order expansion of the graph: every import is
\* replaced in place by the flattened rules of its target and every other
\* non-comment rule is kept once per import of its sheet, in order.
C2_DepthFirstExpansion ==
    (pc = "done" /\ Acyclic) => Shape(result) = Expand(StartUrl, 1)

\* C8: with every fetch succeeding the flattener returns exactly when the
\* import graph reachable from the starting stylesheet is acyclic: it returns
\* only on an acyclic graph, and on an acyclic graph it never runs out of stack.
C8_TerminatesIffAcyclic ==
    /\ pc = "done" => Acyclic
    /\ Acyclic => pc # "crashed"

\* C9: no reference is fetched twice: a url token (or import rule) object
\* causes at most one fetch call, also after its rule was spliced into the
\* importing stylesheet.
C9_NoSecondFetch ==
    \A p, q \in 1..Len(fetchLog) :
        (/\ fetchLog[p].inst = fetchLog[q].inst
         /\ fetchLog[p].body = fetchLog[q].body
         /\ fetchLog[p].tok = fetchLog[q].tok) => p = q

-----------------------------------------------------------------------------
(* Properties of a run of main *)

ThisRun == { p \in 1..Len(fetchLog) : fetchLog[p].run = run }

ByNodes == { p \in ThisRun : fetchLog[p].node # 0 }

AllReachable == down = <<>>

\* C3: when a fetch fails the run aborts and the output destination is as it
\* was before the run: nothing was written to it and it was not altered.
C3_FailureLeavesOutputAlone ==
    (pc = "crashed" /\ err = "URLError") => outFile.state = "old"

LoopOf(tag) ==
    CASE tag = "style"  -> 1
      [] tag = "link"   -> 2
      [] tag = "script" -> 3
      [] tag = "img"    -> 4
      [] OTHER          -> 0

LoopOfEntry(p) == LoopOf(page[fetchLog[p].node].tag)

StylesheetLinks ==
    { i \in 1..Len(page) :
        /\ \E p \in 1..Len(doc) : doc[p].id = i
        /\ page[i].tag = "link"
        /\ Has(page[i], "rel")
        /\ RelHas(page[i], "stylesheet") }

Out(i) == doc[Pos(i)]

FetchesOf(i) == { p \in ThisRun : fetchLog[p].node = i }

First(S) == CHOOSE p \in S : \A q \in S : p <= q

\* what a finished run did to stylesheet link i whose stylesheet is named by
\* attribute a ("" when by none)
LinkOutcome(i, a) ==
    IF a = ""
    THEN /\ Out(i) = Soup(page)[i]
         /\ FetchesOf(i) = {}
    ELSE /\ Out(i).tag = "style"
         /\ Out(i).attrs = NoAttrs
         /\ Out(i).hasText
         /\ FetchesOf(i) # {}
         /\ fetchLog[First(FetchesOf(i))].name = page[i].attrs[a]
         /\ \A j \in 1..Len(Out(i).css) : Out(i).css[j].body.sheet # "inline"

\* C5 as stated: the name is read from href when href is present, otherwise
\* from data-href; with a name the link is replaced by a style element, and
\* with neither attribute present it is left alone and nothing is fetched.
C5_HrefWhenPresent ==
    pc = "done" =>
        \A i \in StylesheetLinks :
            LinkOutcome(i, IF Has(page[i], "href") THEN "href"
                           ELSE IF Has(page[i], "data-href") THEN "data-href"
                           ELSE "")

\* C5 (amended): the name is read from href when href is present and not
\* empty, otherwise from data-href when that is present and not empty; with
\* a name the link is replaced in place by a style element holding the
\* fetched stylesheet's rules, and no link attribute remains; with no
\* non-empty name the element is left as it was and nothing is fetched for it.
C5_HrefWhenNotEmpty ==
    pc = "done" =>
        \A i \in StylesheetLinks :
            LinkOutcome(i, IF Truthy(page[i], "href") THEN "href"
                           ELSE IF Truthy(page[i], "data-href") THEN "data-href"
                           ELSE "")

\* a finished run over a document with a stylesheet link whose href is empty
\* and whose data-href names the stylesheet: the link was replaced
C5_Witness ==
    /\ pc = "done"
    /\ \E i \in StylesheetLinks :
          /\ Has(page[i], "href") /\ ~Truthy(page[i], "href")
          /\ Truthy(page[i], "data-href")
          /\ Out(i).tag = "style"

\* C6: a second run, on the output of a successful first run, fetches nothing
\* but the document, does not abort, and writes the document it read.
C6_Idempotent ==
    (run = 2 /\ AllReachable) =>
        /\ pc # "crashed"
        /\ \A p \in ThisRun : fetchLog[p].node = 0 /\ fetchLog[p].inst = 0
        /\ pc = "done" => outFile.doc = prev

\* C7: no fetch is issued for an empty resource name.
C7_EmptyNameNotFetched ==
    \A p \in 1..Len(fetchLog) : fetchLog[p].name # <<>>

\* C10: when every fetch succeeds the run does not abort, whatever elements
\* the document holds.
C10_NeverAborts ==
    AllReachable => pc # "crashed"

====
